---- MODULE Spec2Model ----
(***************************************************************************)
(* The interactive MCP client of examples/mcp/client/main.py: the session  *)
(* loop of interactive_tool_client (listing, menu, selection, the three    *)
(* invocation branches, the exception handlers), build_arguments_from_     *)
(* schema, the template resolution, and main().                            *)
(*                                                                         *)
(* Text is a sequence of one-character strings, so that strip, int,        *)
(* re.findall and str.replace are computed character by character.         *)
(***************************************************************************)
EXTENDS Integers, Sequences, FiniteSets, TLC

\* ------------------------------------------------------------------ bounds

\* Longest tools / resources / resourceTemplates sequence a list call returns.
MaxTools == 2

MaxResources == 1

MaxTemplates == 2

\* ------------------------------------------------------------- text helpers

Whitespace == {" "}

Digits == <<"0", "1", "2", "3", "4", "5", "6", "7", "8", "9">>

\* \w of the regular expression, over the characters the inputs use.
WordChars == {"a", "b", "c", "d", "e", "i", "m", "o", "s", "t", "v", "x", "y", "I",
              "0", "1", "2", "3", "4", "5", "6", "7", "8", "9", "_"}

RECURSIVE lstrip(_)
lstrip(s) ==
    IF s # <<>> /\ Head(s) \in Whitespace THEN lstrip(Tail(s)) ELSE s

RECURSIVE rstrip(_)
rstrip(s) ==
    IF s # <<>> /\ s[Len(s)] \in Whitespace
    THEN rstrip(SubSeq(s, 1, Len(s) - 1))
    ELSE s

\* str.strip()
strip(s) == rstrip(lstrip(s))

\* str.lower(), over the letters the inputs use.
Upper == <<"E", "Q", "R", "S", "T", "U", "Y">>

Lower == <<"e", "q", "r", "s", "t", "u", "y">>

lower(s) ==
    [i \in 1..Len(s) |->
        IF \E j \in 1..Len(Upper) : Upper[j] = s[i]
        THEN Lower[CHOOSE j \in 1..Len(Upper) : Upper[j] = s[i]]
        ELSE s[i]]

IsDigit(c) == \E i \in 1..10 : Digits[i] = c

DigitVal(c) == (CHOOSE i \in 1..10 : Digits[i] = c) - 1

RECURSIVE DigitsVal(_)
DigitsVal(s) ==
    IF s = <<>> THEN 0
    ELSE 10 * DigitsVal(SubSeq(s, 1, Len(s) - 1)) + DigitVal(s[Len(s)])

\* int(text): an optional sign, then one or more decimal digits; anything else
\* raises ValueError (ok = FALSE).
int(s) ==
    LET signed == s # <<>> /\ Head(s) \in {"-", "+"}
        body   == IF signed THEN Tail(s) ELSE s
        ok     == body # <<>> /\ \A i \in 1..Len(body) : IsDigit(body[i])
    IN  [ok  |-> ok,
         val |-> IF ~ok THEN 0
                 ELSE IF signed /\ Head(s) = "-" THEN 0 - DigitsVal(body)
                 ELSE DigitsVal(body)]

\* Length of the longest run of word characters of s that starts at position i.
RECURSIVE WordRun(_, _)
WordRun(s, i) ==
    IF i <= Len(s) /\ s[i] \in WordChars THEN 1 + WordRun(s, i + 1) ELSE 0

\* re.findall(r'{(\w+)}', s) scanning from position i: the names of the
\* non-overlapping matches, leftmost first, repeated names included.
RECURSIVE findallFrom(_, _)
findallFrom(s, i) ==
    IF i > Len(s) THEN <<>>
    ELSE LET n == WordRun(s, i + 1) IN
         IF s[i] = "{" /\ n >= 1 /\ i + n + 1 <= Len(s) /\ s[i + n + 1] = "}"
         THEN <<SubSeq(s, i + 1, i + n)>> \o findallFrom(s, i + n + 2)
         ELSE findallFrom(s, i + 1)

findall(s) == findallFrom(s, 1)

\* s.replace(old, new): every non-overlapping occurrence of old, left to right.
RECURSIVE replace(_, _, _)
replace(s, old, new) ==
    IF Len(s) < Len(old) THEN s
    ELSE IF SubSeq(s, 1, Len(old)) = old
         THEN new \o replace(SubSeq(s, Len(old) + 1, Len(s)), old, new)
         ELSE <<Head(s)>> \o replace(Tail(s), old, new)

\* f'{{{param}}}'
Braced(param) == <<"{">> \o param \o <<"}">>

\* ------------------------------------------------- dict (insertion ordered)

\* A dict is a sequence of <<key, value>> pairs in order of first insertion.
DictHas(d, k) == \E i \in 1..Len(d) : d[i][1] = k

DictGet(d, k) == d[CHOOSE i \in 1..Len(d) : d[i][1] = k][2]

\* d[k] = v
DictSet(d, k, v) ==
    IF DictHas(d, k)
    THEN [i \in 1..Len(d) |-> IF d[i][1] = k THEN <<k, v>> ELSE d[i]]
    ELSE Append(d, <<k, v>>)

\* ------------------------------------------------------------- exceptions

\* What a raise site can raise: a ValueError (or a subclass, such as pydantic's
\* ValidationError or UnicodeEncodeError), another Exception, KeyboardInterrupt,
\* or another BaseException that is no Exception (asyncio.CancelledError).
ExcKinds == {"ValueError", "Exception", "KeyboardInterrupt", "CancelledError"}

\* isinstance(e, Exception)
IsException(e) == e.kind \in {"ValueError", "Exception"}

NoExc == [kind |-> "none", site |-> "none"]

Exc(k, site) == [kind |-> k, site |-> site]

\* An awaited client operation can fail with any kind.
AwaitRaises == ExcKinds

\* input() raises KeyboardInterrupt on an interrupt and EOFError on end of input.
InputRaises == {"KeyboardInterrupt", "Exception"}

\* Rendering (print, len(item.blob)) fails with UnicodeEncodeError, a ValueError,
\* or with an OSError / TypeError.
RenderRaises == {"ValueError", "Exception"}

\* ------------------------------------------------------ what the server offers

NoSchema == [hasProperties |-> FALSE, properties |-> <<>>, required |-> {}]

PlotSchema ==
    [hasProperties |-> TRUE,
     properties    |-> <<[name |-> "plot", type |-> "string"],
                         [name |-> "top_k", type |-> "integer"]>>,
     required      |-> {"plot"}]

ToolPool ==
    {[name |-> "graph_statistics", inputSchema |-> NoSchema],
     [name |-> "search_movies_by_plot", inputSchema |-> PlotSchema]}

ResourcePool ==
    {[name |-> "genres", uri |-> <<"g">>],
     [name |-> "movies", uri |-> <<"m">>]}

\* "movies/{tmdbId}/cast", "{a}/{b}" and "{a}/{a}"
TemplatePool ==
    {[name |-> "cast",
      uriTemplate |-> <<"m", "o", "v", "i", "e", "s", "/", "{", "t", "m", "d", "b",
                        "I", "d", "}", "/", "c", "a", "s", "t">>],
     [name |-> "pair", uriTemplate |-> <<"{", "a", "}", "/", "{", "b", "}">>],
     [name |-> "twice", uriTemplate |-> <<"{", "a", "}", "/", "{", "a", "}">>]}

IsInjective(q) == \A i, j \in 1..Len(q) : q[i] = q[j] => i = j

\* Sequences of at most n distinct members of S: one answer of a list call
\* (names are unique within a listing).
Listings(S, n) ==
    UNION {{q \in [1..k -> S] : IsInjective(q)} : k \in 0..n}

\* What the user can type at the selection prompt.
ChoiceLines ==
    {<<>>, <<" ">>, <<"0">>, <<"1">>, <<" ", "2">>, <<"3">>, <<"4">>, <<"5">>, <<"6">>,
     <<"7">>, <<"-", "1">>, <<"0", "0">>, <<"x">>, <<"1", ".", "5">>}

\* What the user can type for a tool parameter.
ArgLines == {<<>>, <<" ">>, <<"7">>, <<"x">>}

\* What the user can type for a template placeholder.
ValueLines == {<<>>, <<" ">>, <<"6", "0", "3">>, <<"{", "b", "}">>}

\* What the user can type at the post-invocation prompt.
ContinueLines == {<<>>, <<"q">>, <<" ", "Q">>, <<"x">>}

\* What call_tool / read_resource can answer: the kind of its content items
\* and, for a tool, the error flag.
ContentKinds == {"empty", "text", "blob", "opaque"}

\* ------------------------------------------------------------ type coercion

AllDigits(s) == \A i \in 1..Len(s) : IsDigit(s[i])

\* float(text), for decimal text: an optional sign, digits, at most one point,
\* at least one digit. The value is num / 10^scale.
float(s) ==
    LET signed == s # <<>> /\ Head(s) \in {"-", "+"}
        body   == IF signed THEN Tail(s) ELSE s
        points == {i \in 1..Len(body) : body[i] = "."}
        dot    == IF points = {} THEN Len(body) + 1 ELSE CHOOSE i \in points : TRUE
        whole  == SubSeq(body, 1, dot - 1)
        frac   == SubSeq(body, dot + 1, Len(body))
        ok     == /\ Cardinality(points) <= 1
                  /\ AllDigits(whole) /\ AllDigits(frac)
                  /\ Len(whole) + Len(frac) >= 1
        mag    == DigitsVal(whole \o frac)
    IN  [ok  |-> ok,
         val |-> IF ~ok THEN [t |-> "float", num |-> 0, scale |-> 0]
                 ELSE [t     |-> "float",
                       num   |-> IF signed /\ Head(s) = "-" THEN 0 - mag ELSE mag,
                       scale |-> Len(frac)]]

\* A JSON integer literal: an optional minus, digits, no leading zero.
IsJsonInt(s) ==
    LET body == IF s # <<>> /\ Head(s) = "-" THEN Tail(s) ELSE s
    IN  body # <<>> /\ AllDigits(body) /\ (Len(body) > 1 => Head(body) # "0")

\* One symbol of a text that stands for a run of "[" longer than the
\* interpreter's recursion limit (1000 frames by default).
DeepNesting == "[[[...["

\* json.loads(text), for the documents {}, [], [n] and n (n an integer literal);
\* any other text raises json.JSONDecodeError (ok = FALSE), a ValueError, but
\* a text that opens more arrays than the recursion limit allows raises
\* RecursionError (deep = TRUE), which is not a ValueError.
json_loads(s) ==
    LET inner == SubSeq(s, 2, Len(s) - 1)
        R(ok, val, deep) == [ok |-> ok, val |-> val, deep |-> deep]
    IN
    IF s # <<>> /\ Head(s) = DeepNesting THEN R(FALSE, [t |-> "none"], TRUE)
    ELSE IF s = <<"{", "}">> THEN R(TRUE, [t |-> "object", items |-> <<>>], FALSE)
    ELSE IF Len(s) >= 2 /\ s[1] = "[" /\ s[Len(s)] = "]" /\ inner = <<>>
    THEN R(TRUE, [t |-> "array", items |-> <<>>], FALSE)
    ELSE IF Len(s) >= 2 /\ s[1] = "[" /\ s[Len(s)] = "]" /\ IsJsonInt(inner)
    THEN R(TRUE, [t |-> "array", items |-> <<int(inner).val>>], FALSE)
    ELSE IF IsJsonInt(s) THEN R(TRUE, [t |-> "int", v |-> int(s).val], FALSE)
    ELSE R(FALSE, [t |-> "none"], FALSE)

Truthy == {<<"t", "r", "u", "e">>, <<"y", "e", "s">>, <<"1">>, <<"y">>}

\* Variant: every type is stored as the text.
CoerceAsText(param_type, user_input) ==
    [ok |-> TRUE, val |-> [t |-> "str", v |-> user_input], exc |-> "none"]

\* The try block of build_arguments_from_schema: the value stored for a
\* non-empty input, or ok = FALSE and the kind of exception the conversion
\* raises (json.JSONDecodeError is a ValueError).
Coerce(param_type, user_input) ==
    LET Result(ok, val, kind) ==
            [ok |-> ok, val |-> val, exc |-> IF ok THEN "none" ELSE kind]
    IN
    IF param_type = "integer"
    THEN Result(int(user_input).ok, [t |-> "int", v |-> int(user_input).val],
                "ValueError")
    ELSE IF param_type = "number"
    THEN Result(float(user_input).ok, float(user_input).val, "ValueError")
    ELSE IF param_type = "boolean"
    THEN Result(TRUE, [t |-> "bool", v |-> lower(user_input) \in Truthy], "none")
    ELSE IF param_type = "object" \/ param_type = "array"
    THEN Result(json_loads(user_input).ok, json_loads(user_input).val,
                IF json_loads(user_input).deep THEN "Exception" ELSE "ValueError")
    ELSE Result(TRUE, [t |-> "str", v |-> user_input], "none")

\* ------------------------------------------------------------------- state

VARIABLES
    pc,              \* where interactive_tool_client / main stands
    transport,       \* streamablehttp_client context: "none", "open", "closed"
    session,         \* ClientSession context: "none", "open", "closed"
    acquires,        \* how many times the two contexts were entered
    tools,           \* tools_result.tools of the latest list_tools
    resources,       \* resources_result.resources
    templates,       \* templates_result.resourceTemplates
    fresh,           \* which of the three were fetched in this iteration
    menu,            \* the numbered entries this iteration displayed
    choice,          \* the text entered at the selection prompt, stripped
    sel,             \* the branch taken and the item selected
    argIdx,          \* build_arguments_from_schema: position in properties
    lineRead,        \* build_arguments_from_schema: the line input() returned
                     \* last (before strip) and the position it was read for
    arguments,       \* build_arguments_from_schema: arguments
    params,          \* template branch: params
    pidx,            \* template branch: position in params
    param_values,    \* template branch: param_values
    uri,             \* the address about to be read
    prompted,        \* <<placeholder, value entered>> per template prompt, in order
    shown,           \* the last message this iteration displayed
    caught,          \* the exception the loop's handlers caught in this iteration
    request,         \* the call_tool / read_resource request of this iteration
                     \* and the isError of the result it got
    srvChanged,      \* the server changed its offerings since the listing
    reqAfterRelease, \* a request was issued on a released session
    resumed,         \* while the menu of an iteration is unanswered: the last message
                     \* of the previous iteration ("first": there was none)
    listError,       \* the exception a list call raised
    ended,           \* why the loop ended ("none": it has not)
    raised,          \* the exception that left interactive_tool_client
    interruptCancel, \* raised is the cancellation that asyncio.run's SIGINT
                     \* handler ordered for the main task
    diagnostic,      \* the "Error connecting to server" diagnostic was printed
    mainRaised       \* the exception that left main()

\* The state of a run of test_environment.py.
VARIABLES
    env,                      \* the environment of the run: whether .env exists
                              \* in the working directory, whether the neo4j
                              \* package can be imported, what os.getenv returns
    skip_env_variable_tests,  \* TestEnvironment.skip_env_variable_tests
    skip_neo4j_test,          \* TestEnvironment.skip_neo4j_test
    step,                     \* the statement of the suite that runs next
    outcome,                  \* the result recorded for each test
    driver,                   \* the driver: "none", "open", "closed"
    connected                 \* the local `connected` ("unset" before the check)

suiteVars ==
    <<env, skip_env_variable_tests, skip_neo4j_test, step, outcome, driver, connected>>

clientVars ==
    <<pc, transport, session, acquires, tools, resources, templates, fresh, menu,
      choice, sel, argIdx, lineRead, arguments, params, pidx, param_values, uri, prompted,
      shown, caught, request, srvChanged, reqAfterRelease, resumed, listError, ended,
      raised, interruptCancel, diagnostic, mainRaised>>

vars == <<clientVars, suiteVars>>

NoSel == [kind |-> "none", index |-> 0]

\* No line was read at the selection prompt.
NoChoice == <<"none">>

\* No line was read at a parameter prompt.
NoEntry == [at |-> 0, line |-> <<>>]

NoReq == [op |-> "none", name |-> "", uri |-> <<>>, args |-> <<>>, isError |-> FALSE]

Msg(m) == [msg |-> m, exc |-> NoExc, content |-> "none", flagged |-> FALSE]

AllStale == [tools |-> FALSE, resources |-> FALSE, templates |-> FALSE]

ClientInit ==
    /\ pc = "connect"
    /\ transport = "none"
    /\ session = "none"
    /\ acquires = [transport |-> 0, session |-> 0]
    /\ tools = <<>>
    /\ resources = <<>>
    /\ templates = <<>>
    /\ fresh = AllStale
    /\ menu = {}
    /\ choice = NoChoice
    /\ sel = NoSel
    /\ argIdx = 0
    /\ lineRead = NoEntry
    /\ arguments = <<>>
    /\ params = <<>>
    /\ pidx = 0
    /\ param_values = <<>>
    /\ uri = <<>>
    /\ prompted = <<>>
    /\ shown = Msg("connecting")
    /\ caught = NoExc
    /\ request = NoReq
    /\ srvChanged = FALSE
    /\ reqAfterRelease = FALSE
    /\ resumed = "first"
    /\ listError = NoExc
    /\ ended = "none"
    /\ raised = NoExc
    /\ interruptCancel = FALSE
    /\ diagnostic = FALSE
    /\ mainRaised = NoExc

\* os.getenv(name) for a variable that is not set.
None == "<None>"

TestNames == {"test_env_file_exists", "test_neo4j_variables", "test_neo4j_connection"}

\* test_environment.py is not run.
SuiteIdle ==
    /\ env = [file |-> FALSE, neo4j |-> FALSE, NEO4J_URI |-> None,
              NEO4J_USERNAME |-> None, NEO4J_PASSWORD |-> None]
    /\ skip_env_variable_tests = TRUE
    /\ skip_neo4j_test = TRUE
    /\ step = "not_run"
    /\ outcome = [t \in TestNames |-> "none"]
    /\ driver = "none"
    /\ connected = "unset"

Init == ClientInit /\ SuiteIdle

\* ----------------------------------------------------------- control transfer

\* The frame of the loop body: its locals, what it displayed and caught, and
\* where control goes next ("iterate": the next loop iteration, "break": out
\* of the loop, "propagate": exc leaves the loop, otherwise a position).
Cur ==
    [choice |-> choice, sel |-> sel, argIdx |-> argIdx, lineRead |-> lineRead,
     arguments |-> arguments, params |-> params,
     pidx |-> pidx, param_values |-> param_values, uri |-> uri,
     prompted |-> prompted, shown |-> shown, caught |-> caught,
     next |-> pc, exc |-> NoExc, why |-> "none"]

\* Control stays inside the loop body, at position p.
Goto(p) ==
    /\ pc' = p
    /\ UNCHANGED <<transport, session, ended, raised, interruptCancel, diagnostic>>

\* Variant: the next iteration reuses the listing and goes straight to the prompt.
NextIterationCached ==
    /\ pc' = "choose"
    /\ fresh' = AllStale
    /\ UNCHANGED <<transport, session, ended, raised, interruptCancel, diagnostic>>

\* `continue`, or the end of the loop body: back to the top of `while True`,
\* where list_tools, list_resources and list_resource_templates are awaited.
NextIteration ==
    /\ pc' = "list_tools"
    /\ fresh' = AllStale
    /\ UNCHANGED <<transport, session, ended, raised, interruptCancel, diagnostic>>

\* Variant: leaving the block does not exit the context.
ReleasedNever(ctx) == ctx

\* __aexit__ of `async with ClientSession(...)` and of
\* `async with streamablehttp_client(...)`, innermost first.
Released(ctx) == IF ctx = "open" THEN "closed" ELSE ctx

\* `break`: the loop ends, both contexts exit, interactive_tool_client returns.
Break(why) ==
    /\ pc' = "main"
    /\ session' = Released(session)
    /\ transport' = Released(transport)
    /\ ended' = why
    /\ UNCHANGED <<raised, interruptCancel, diagnostic>>

\* Exception e leaves the contexts: both exit; `except Exception` prints the
\* diagnostic and re-raises e; any other BaseException passes it by. A
\* CancelledError is the cancellation of the main task that the SIGINT handler
\* of asyncio.run ordered (Ctrl-C while a request is awaited, or at an earlier
\* input prompt), or a cancellation of another origin.
Propagate(e) ==
    /\ interruptCancel' \in (IF e.kind = "CancelledError" THEN BOOLEAN ELSE {FALSE})
    /\ pc' = "main"
    /\ session' = Released(session)
    /\ transport' = Released(transport)
    /\ diagnostic' = IsException(e)
    /\ raised' = e
    /\ ended' = "error"

\* Variant: the `except Exception` clause is missing, so only ValueError and
\* KeyboardInterrupt are handled.
HandleWithoutCatchAll(e, f) ==
    IF e.kind = "ValueError"
    THEN [f EXCEPT !.caught = e, !.shown = Msg("invalid_input"), !.next = "iterate"]
    ELSE IF e.kind = "KeyboardInterrupt"
    THEN [f EXCEPT !.caught = e, !.shown = Msg("goodbye"), !.next = "break",
                   !.why = "interrupt"]
    ELSE [f EXCEPT !.next = "propagate", !.exc = e]

\* The three handlers of the try statement in the loop body, for exception e
\* raised inside it.
Handle(e, f) ==
    IF e.kind = "ValueError"
    THEN [f EXCEPT !.caught = e, !.shown = Msg("invalid_input"), !.next = "iterate"]
    ELSE IF e.kind = "KeyboardInterrupt"
    THEN [f EXCEPT !.caught = e, !.shown = Msg("goodbye"), !.next = "break",
                   !.why = "interrupt"]
    ELSE IF IsException(e)
    THEN [f EXCEPT !.caught = e,
                   !.shown = [msg |-> "error_executing", exc |-> e,
                              content |-> "none", flagged |-> FALSE],
                   !.next = "iterate"]
    ELSE [f EXCEPT !.next = "propagate", !.exc = e]

\* The frame o becomes the state.
Apply(o) ==
    /\ choice' = o.choice
    /\ sel' = o.sel
    /\ argIdx' = o.argIdx
    /\ lineRead' = o.lineRead
    /\ arguments' = o.arguments
    /\ params' = o.params
    /\ pidx' = o.pidx
    /\ param_values' = o.param_values
    /\ uri' = o.uri
    /\ prompted' = o.prompted
    /\ shown' = o.shown
    /\ caught' = o.caught
    /\ IF o.next = "iterate" THEN NextIteration
       ELSE /\ UNCHANGED fresh
            /\ IF o.next = "break" THEN Break(o.why)
               ELSE IF o.next = "propagate" THEN Propagate(o.exc)
               ELSE Goto(o.next)

\* A request goes out on the session.
Issue == reqAfterRelease' = (reqAfterRelease \/ session # "open")

\* ------------------------------------------------------------------ startup

\* async with streamablehttp_client(server_url)
Connect ==
    /\ pc = "connect"
    /\ \/ /\ transport' = "open"
          /\ acquires' = [acquires EXCEPT !.transport = @ + 1]
          /\ pc' = "enter_session"
          /\ shown' = Msg("connected")
          /\ UNCHANGED <<session, ended, raised, interruptCancel, diagnostic>>
       \/ \E k \in AwaitRaises :
             /\ Propagate(Exc(k, "connect"))
             /\ UNCHANGED <<acquires, shown>>
    /\ UNCHANGED <<tools, resources, templates, fresh, menu, choice, sel, argIdx, lineRead,
                   arguments, params, pidx, param_values, uri, prompted, caught,
                   request, srvChanged, reqAfterRelease, resumed, listError,
                   mainRaised, suiteVars>>

\* async with ClientSession(read, write)
EnterSession ==
    /\ pc = "enter_session"
    /\ \/ /\ session' = "open"
          /\ acquires' = [acquires EXCEPT !.session = @ + 1]
          /\ pc' = "initialize"
          /\ UNCHANGED <<transport, ended, raised, interruptCancel, diagnostic>>
       \/ \E k \in AwaitRaises :
             /\ Propagate(Exc(k, "session"))
             /\ UNCHANGED acquires
    /\ UNCHANGED <<tools, resources, templates, fresh, menu, choice, sel, argIdx, lineRead,
                   arguments, params, pidx, param_values, uri, prompted, shown, caught,
                   request, srvChanged, reqAfterRelease, resumed, listError,
                   mainRaised, suiteVars>>

\* await session.initialize(), then the server banner
Initialize ==
    /\ pc = "initialize"
    /\ \/ /\ Goto("list_tools")
          /\ shown' = Msg("server_info")
       \/ \E k \in AwaitRaises :
             /\ Propagate(Exc(k, "initialize"))
             /\ UNCHANGED shown
    /\ UNCHANGED <<acquires, tools, resources, templates, fresh, menu, choice, sel,
                   argIdx, lineRead, arguments, params, pidx, param_values, uri, prompted,
                   caught, request, srvChanged, reqAfterRelease, resumed, listError,
                   mainRaised, suiteVars>>

\* ------------------------------------------------------------------ listing

\* Variant: the error of a list call is dropped and the listing tried again.
ListFailRetried(e) == Goto("list_tools")

\* An error of a list call: the three calls stand before the try statement of
\* the loop body, so only the function-level handler sees it.
ListFail(e) == Propagate(e)

\* tools_result = await session.list_tools(): the first statement of an
\* iteration. The locals of the previous iteration are dead here (each is
\* assigned again before it is read) and its record is closed, so both start over.
ListTools ==
    /\ pc = "list_tools"
    /\ Issue
    /\ choice' = NoChoice /\ sel' = NoSel /\ argIdx' = 0 /\ arguments' = <<>>
    /\ lineRead' = NoEntry
    /\ params' = <<>> /\ pidx' = 0 /\ param_values' = <<>> /\ uri' = <<>>
    /\ prompted' = <<>> /\ shown' = Msg("listing") /\ caught' = NoExc
    /\ request' = NoReq /\ srvChanged' = FALSE
    /\ resumed' = IF shown.msg = "server_info" THEN "first" ELSE shown.msg
    /\ \/ \E q \in Listings(ToolPool, MaxTools) :
             /\ tools' = q
             /\ fresh' = [fresh EXCEPT !.tools = TRUE]
             /\ Goto("list_resources")
             /\ UNCHANGED listError
       \/ \E k \in AwaitRaises :
             /\ ListFail(Exc(k, "list_tools"))
             /\ listError' = Exc(k, "list_tools")
             /\ UNCHANGED <<tools, fresh>>
    /\ UNCHANGED <<acquires, resources, templates, menu, mainRaised, suiteVars>>

\* resources_result = await session.list_resources()
ListResources ==
    /\ pc = "list_resources"
    /\ Issue
    /\ \/ \E q \in Listings(ResourcePool, MaxResources) :
             /\ resources' = q
             /\ fresh' = [fresh EXCEPT !.resources = TRUE]
             /\ Goto("list_templates")
             /\ UNCHANGED listError
       \/ \E k \in AwaitRaises :
             /\ ListFail(Exc(k, "list_resources"))
             /\ listError' = Exc(k, "list_resources")
             /\ UNCHANGED <<resources, fresh>>
    /\ UNCHANGED <<acquires, tools, templates, menu, choice, sel, argIdx, lineRead, arguments,
                   params, pidx, param_values, uri, prompted, shown, caught, request,
                   srvChanged, resumed, mainRaised, suiteVars>>

\* The three enumerate loops that number the menu: tools from 1, resources
\* from len(tools) + 1, templates from len(tools) + len(resources) + 1.
MenuOf(ts, rs, ms) ==
    [i \in 1..Len(ts) |-> [ordinal |-> 1 + (i - 1), kind |-> "tool", name |-> ts[i].name]]
    \o [i \in 1..Len(rs) |->
          [ordinal |-> (Len(ts) + 1) + (i - 1), kind |-> "resource", name |-> rs[i].name]]
    \o [i \in 1..Len(ms) |->
          [ordinal |-> (Len(ts) + Len(rs) + 1) + (i - 1), kind |-> "template",
           name |-> ms[i].name]]

\* templates_result = await session.list_resource_templates(), then the
\* emptiness test and the menu, up to the selection prompt.
ListTemplates ==
    /\ pc = "list_templates"
    /\ Issue
    /\ \/ \E q \in Listings(TemplatePool, MaxTemplates) :
             /\ templates' = q
             /\ fresh' = [fresh EXCEPT !.templates = TRUE]
             /\ IF tools = <<>> /\ resources = <<>> /\ q = <<>>
                THEN /\ shown' = Msg("no_capabilities")
                     /\ menu' = menu
                     /\ Break("no_capabilities")
                ELSE /\ shown' = Msg("menu")
                     /\ menu' = MenuOf(tools, resources, q)
                     /\ Goto("choose")
             /\ UNCHANGED listError
       \/ \E k \in AwaitRaises :
             /\ ListFail(Exc(k, "list_templates"))
             /\ listError' = Exc(k, "list_templates")
             /\ UNCHANGED <<templates, fresh, menu, shown>>
    /\ UNCHANGED <<acquires, tools, resources, choice, sel, argIdx, lineRead, arguments, params,
                   pidx, param_values, uri, prompted, caught, request, srvChanged,
                   resumed, mainRaised, suiteVars>>

\* The server's set of capabilities changes while the client holds a listing.
ServerChange ==
    /\ pc \in {"choose", "arg_prompt", "call_tool", "tmpl_prompt", "read_resource"}
    /\ ~srvChanged
    /\ srvChanged' = TRUE
    /\ UNCHANGED <<pc, transport, session, acquires, tools, resources, templates, fresh,
                   menu, choice, sel, argIdx, lineRead, arguments, params, pidx, param_values,
                   uri, prompted, shown, caught, request, reqAfterRelease, resumed,
                   listError, ended, raised, interruptCancel, diagnostic,
                   mainRaised, suiteVars>>

\* ---------------------------------------------------------------- selection

\* list[i] of Python: negative i counts from the end; IndexError outside.
HasItem(q, i) == 0 - Len(q) <= i /\ i < Len(q)

Item(q, i) == IF i >= 0 THEN q[i + 1] ELSE q[Len(q) + i + 1]

\* Variant: the upper test is off by one (selection_index > total_items).
InvalidSelectionOffByOne(selection_index, total_items) ==
    selection_index < 0 \/ selection_index > total_items

\* selection_index < 0 or selection_index >= total_items
InvalidSelection(selection_index, total_items) ==
    selection_index < 0 \/ selection_index >= total_items

\* Variant: template_index forgets to subtract len(resources).
BranchTemplateOffset(selection_index, nTools, nResources) ==
    IF selection_index < nTools
    THEN [kind |-> "tool", index |-> selection_index]
    ELSE IF selection_index < nTools + nResources
    THEN [kind |-> "resource", index |-> selection_index - nTools]
    ELSE [kind |-> "template", index |-> selection_index - nTools]

\* The if / elif / else over selection_index: the branch and the index into
\* tools, resources or templates.
Branch(selection_index, nTools, nResources) ==
    IF selection_index < nTools
    THEN [kind |-> "tool", index |-> selection_index]
    ELSE IF selection_index < nTools + nResources
    THEN [kind |-> "resource", index |-> selection_index - nTools]
    ELSE [kind |-> "template", index |-> selection_index - nTools - nResources]

\* uri = selected_template.uriTemplate, then one uri.replace per item of
\* param_values, in insertion order.
RECURSIVE Construct(_, _)
Construct(u, values) ==
    IF values = <<>> THEN u
    ELSE Construct(replace(u, Braced(values[1][1]), values[1][2]), Tail(values))

\* Variant: the length test is dropped.
ResolvedAlways(values, names) == TRUE

\* len(param_values) != len(params) is false
Resolved(values, names) == Len(values) = Len(names)

\* After the prompt loop of the template branch: skip, or construct the URI.
AfterPrompts(f) ==
    IF ~Resolved(f.param_values, f.params)
    THEN [f EXCEPT !.shown = Msg("missing_parameters"), !.next = "iterate"]
    ELSE [f EXCEPT !.uri = Construct(Item(templates, f.sel.index).uriTemplate,
                                     f.param_values),
                   !.shown = Msg("constructed_uri"),
                   !.next = "read_resource"]

IndexError == Exc("Exception", "index")

\* The chosen branch up to its first prompt or request.
Dispatch(b, f) ==
    IF b.kind = "tool"
    THEN IF ~HasItem(tools, b.index) THEN Handle(IndexError, f)
         ELSE LET input_schema == Item(tools, b.index).inputSchema IN
              IF ~input_schema.hasProperties \/ input_schema.properties = <<>>
              THEN [f EXCEPT !.sel = b, !.arguments = <<>>,
                             !.shown = Msg("calling"), !.next = "call_tool"]
              ELSE [f EXCEPT !.sel = b, !.arguments = <<>>, !.argIdx = 1,
                             !.shown = Msg("parameter_info"), !.next = "arg_prompt"]
    ELSE IF b.kind = "resource"
    THEN IF ~HasItem(resources, b.index) THEN Handle(IndexError, f)
         ELSE [f EXCEPT !.sel = b, !.uri = Item(resources, b.index).uri,
                        !.shown = Msg("reading"), !.next = "read_resource"]
    ELSE IF ~HasItem(templates, b.index) THEN Handle(IndexError, f)
         ELSE LET found == findall(Item(templates, b.index).uriTemplate)
                  g == [f EXCEPT !.sel = b, !.params = found, !.param_values = <<>>,
                                 !.shown = Msg("parameter_info")]
              IN  IF found = <<>> THEN AfterPrompts(g)
                  ELSE [g EXCEPT !.pidx = 1, !.next = "tmpl_prompt"]

\* Variant: only "0" exits; the empty line goes on to int(choice).
ExitsOnZeroOnly(entered) == entered = <<"0">>

\* choice == "0" or choice == ""
Exits(entered) == entered = <<"0">> \/ entered = <<>>

\* The selection prompt answered with `entered` (already stripped).
Selected(entered, f0) ==
    LET f == [f0 EXCEPT !.choice = entered] IN
    IF Exits(entered)
    THEN [f EXCEPT !.shown = Msg("goodbye"), !.next = "break", !.why = "exit"]
    ELSE IF ~int(entered).ok THEN Handle(Exc("ValueError", "int"), f)
    ELSE LET selection_index == int(entered).val - 1
             total_items == Len(tools) + Len(resources) + Len(templates)
         IN  IF InvalidSelection(selection_index, total_items)
             THEN [f EXCEPT !.shown = Msg("invalid_selection"), !.next = "iterate"]
             ELSE Dispatch(Branch(selection_index, Len(tools), Len(resources)), f)

\* choice = input(...).strip() and what follows, up to the next prompt or request.
Choose ==
    /\ pc = "choose"
    /\ \/ \E line \in ChoiceLines : Apply(Selected(strip(line), Cur))
       \/ \E k \in InputRaises : Apply(Handle(Exc(k, "choice"), Cur))
    /\ resumed' = "answered"
    /\ UNCHANGED <<acquires, tools, resources, templates, menu, request, srvChanged,
                   reqAfterRelease, listError, mainRaised, suiteVars>>

\* ------------------------------------------------------------------- tools

\* No type is declared for the parameter.
NoType == "none"

\* param_info.get("type", "string")
ParamType(param_info) == IF param_info.type = NoType THEN "string" ELSE param_info.type

\* Variant: no parameter counts as required.
IsRequiredNever(param_name, required) == FALSE

\* is_required = param_name in required
IsRequired(param_name, required) == param_name \in required

\* Variant: an empty line is never a skip.
SkipsNever(user_input, is_required) == FALSE

\* not user_input and not is_required
Skips(user_input, is_required) == user_input = <<>> /\ ~is_required

\* One pass of the `while True` of build_arguments_from_schema for the
\* parameter at argIdx, answered with user_input (already stripped).
Answered(user_input, f) ==
    LET schema == Item(tools, f.sel.index).inputSchema
        param == schema.properties[f.argIdx]
        is_required == IsRequired(param.name, schema.required)
        conv == Coerce(ParamType(param), user_input)
        Advance(g) ==
            IF g.argIdx < Len(schema.properties)
            THEN [g EXCEPT !.argIdx = @ + 1, !.shown = Msg("parameter_info")]
            ELSE [g EXCEPT !.shown = Msg("calling"), !.next = "call_tool"]
    IN  IF Skips(user_input, is_required) THEN Advance(f)
        ELSE IF user_input = <<>> /\ is_required
        THEN [f EXCEPT !.shown = Msg("required_warning")]
        ELSE IF conv.ok
        THEN Advance([f EXCEPT !.arguments = DictSet(@, param.name, conv.val)])
        ELSE IF conv.exc = "ValueError"
        THEN [f EXCEPT !.shown = Msg("invalid_type")]
        ELSE Handle(Exc(conv.exc, "coerce"), f)

\* user_input = input("  Enter value: ").strip() inside the tool branch, the
\* user typing one of `lines`
ArgInputFrom(lines) ==
    /\ pc = "arg_prompt"
    /\ \/ \E line \in lines :
             Apply(Answered(strip(line),
                            [Cur EXCEPT !.lineRead = [at |-> argIdx, line |-> line]]))
       \/ \E k \in InputRaises : Apply(Handle(Exc(k, "argument"), Cur))
    /\ UNCHANGED <<acquires, tools, resources, templates, menu, request, srvChanged,
                   reqAfterRelease, resumed, listError, mainRaised, suiteVars>>

ArgInput == ArgInputFrom(ArgLines)

\* How a content item is displayed: its text; for a resource a blob as a byte
\* count; anything else as the item itself.
Rendered(kind, content) ==
    IF content = "empty" THEN "no_content"
    ELSE IF content = "text" THEN "text"
    ELSE IF content = "blob" /\ kind # "tool" THEN "byte_count"
    ELSE "item"

\* Variant: the error flag of the result is not looked at.
DisplayedWithoutIndicator(c, isError) ==
    [msg |-> "result", exc |-> NoExc, content |-> Rendered("tool", c), flagged |-> FALSE]

\* The display of a tool result: its content items, or "(No content
\* returned)", then the error indicator if result.isError.
Displayed(c, isError) ==
    [msg |-> "result", exc |-> NoExc, content |-> Rendered("tool", c),
     flagged |-> isError]

\* result = await session.call_tool(name, arguments=arguments) and its display
CallTool ==
    /\ pc = "call_tool"
    /\ Issue
    /\ LET sent == [op |-> "call_tool", name |-> Item(tools, sel.index).name,
                    uri |-> <<>>, args |-> arguments, isError |-> FALSE]
       IN  \/ \E k \in AwaitRaises :
                 /\ request' = sent
                 /\ Apply(Handle(Exc(k, "call_tool"), Cur))
           \/ \E c \in ContentKinds, isError \in BOOLEAN :
                 /\ request' = [sent EXCEPT !.isError = isError]
                 /\ \/ Apply([Cur EXCEPT !.shown = Displayed(c, isError),
                                         !.next = "continue_prompt"])
                    \/ \E k \in RenderRaises :
                          c # "empty" /\ Apply(Handle(Exc(k, "render"), Cur))
    /\ UNCHANGED <<acquires, tools, resources, templates, menu, srvChanged, resumed,
                   listError, mainRaised, suiteVars>>

\* --------------------------------------------------------------- resources

\* One pass of `for param in params` answered with value (already stripped).
Valued(value, f) ==
    LET param == f.params[f.pidx]
        g == [f EXCEPT !.prompted = Append(@, <<param, value>>)]
    IN  IF value = <<>>
        THEN AfterPrompts([g EXCEPT !.shown = Msg("parameter_required")])
        ELSE LET h == [g EXCEPT !.param_values = DictSet(@, param, value)] IN
             IF h.pidx < Len(h.params) THEN [h EXCEPT !.pidx = @ + 1]
             ELSE AfterPrompts(h)

\* value = input(f"  {param}: ").strip() inside the template branch
TemplateInput ==
    /\ pc = "tmpl_prompt"
    /\ \/ \E line \in ValueLines : Apply(Valued(strip(line), Cur))
       \/ \E k \in InputRaises : Apply(Handle(Exc(k, "value"), Cur))
    /\ UNCHANGED <<acquires, tools, resources, templates, menu, request, srvChanged,
                   reqAfterRelease, resumed, listError, mainRaised, suiteVars>>

\* result = await session.read_resource(uri) and its display, for a direct
\* resource and for a resolved template alike
ReadResource ==
    /\ pc = "read_resource"
    /\ Issue
    /\ request' = [op |-> "read_resource", name |-> "", uri |-> uri, args |-> <<>>,
                   isError |-> FALSE]
    /\ \/ \E k \in AwaitRaises : Apply(Handle(Exc(k, "read_resource"), Cur))
       \/ \E c \in ContentKinds :
             \/ Apply([Cur EXCEPT !.shown = [msg |-> "contents", exc |-> NoExc,
                                             content |-> Rendered(sel.kind, c),
                                             flagged |-> FALSE],
                                  !.next = "continue_prompt"])
             \/ \E k \in RenderRaises :
                   c # "empty" /\ Apply(Handle(Exc(k, "render"), Cur))
    /\ UNCHANGED <<acquires, tools, resources, templates, menu, srvChanged, resumed,
                   listError, mainRaised, suiteVars>>

\* ------------------------------------------------------ after an invocation

\* continue_choice == 'q'
Quits(continue_choice) == continue_choice = <<"q">>

\* continue_choice = input(...).strip().lower(), the last statement of the try
ContinuePrompt ==
    /\ pc = "continue_prompt"
    /\ \/ \E line \in ContinueLines :
             IF Quits(lower(strip(line)))
             THEN Apply([Cur EXCEPT !.shown = Msg("goodbye"), !.next = "break",
                                    !.why = "quit"])
             ELSE Apply([Cur EXCEPT !.next = "iterate"])
       \/ \E k \in InputRaises : Apply(Handle(Exc(k, "continue"), Cur))
    /\ UNCHANGED <<acquires, tools, resources, templates, menu, request, srvChanged,
                   reqAfterRelease, resumed, listError, mainRaised, suiteVars>>

\* -------------------------------------------------------------------- main

\* What asyncio.run(interactive_tool_client()) raises when e left the
\* coroutine: e itself, but KeyboardInterrupt when the main task ended by the
\* cancellation its SIGINT handler had ordered.
RunRaises(e, bySigint) ==
    IF e.kind = "CancelledError" /\ bySigint THEN Exc("KeyboardInterrupt", e.site)
    ELSE e

\* Variant: main has no handler.
CaughtInMainNever(e) == FALSE

\* except KeyboardInterrupt in main()
CaughtInMain(e) == e.kind = "KeyboardInterrupt"

\* main(): asyncio.run(interactive_tool_client()) under `except KeyboardInterrupt`
Main ==
    /\ pc = "main"
    /\ pc' = "done"
    /\ LET e == RunRaises(raised, interruptCancel) IN
          /\ mainRaised' = IF CaughtInMain(e) THEN NoExc ELSE e
          /\ shown' = IF CaughtInMain(e) \/ e = NoExc THEN Msg("session_ended")
                      ELSE shown
    /\ UNCHANGED <<transport, session, acquires, tools, resources, templates, fresh,
                   menu, choice, sel, argIdx, lineRead, arguments, params, pidx, param_values,
                   uri, prompted, caught, request, srvChanged, reqAfterRelease,
                   resumed, listError, ended, raised, interruptCancel,
                   diagnostic, suiteVars>>

Next ==
    \/ Connect
    \/ EnterSession
    \/ Initialize
    \/ ListTools
    \/ ListResources
    \/ ListTemplates
    \/ ServerChange
    \/ Choose
    \/ ArgInput
    \/ CallTool
    \/ TemplateInput
    \/ ReadResource
    \/ ContinuePrompt
    \/ Main

Spec == Init /\ [][Next]_vars

\* ------------------------------------- build_arguments_from_schema by itself

\* The declared types a property can carry: the six the function knows, one
\* it does not, and none.
ParamTypes ==
    {"integer", "number", "boolean", "object", "array", "string", "date", NoType}

\* An input schema with two properties.
TwoParams(t1, t2, required) ==
    [hasProperties |-> TRUE,
     properties    |-> <<[name |-> "first", type |-> t1],
                         [name |-> "second", type |-> t2]>>,
     required      |-> required]

\* The input schemas a server can declare for a tool.
SchemaPool ==
    {NoSchema, PlotSchema}
    \cup {TwoParams(t1, t2, r) : t1 \in ParamTypes, t2 \in ParamTypes,
                                r \in SUBSET {"first", "second"}}

\* What the user can type for a tool parameter of any of these types.
BuildLines ==
    {<<>>, <<" ">>, <<"7">>, <<"x">>, <<"1", ".", "5">>, <<"Y", "e", "s">>,
     <<" ", "y">>, <<"n", "o">>, <<"{", "}">>, <<"[", "7", "]">>, <<"[">>,
     <<DeepNesting>>}

\* The selection prompt of the first iteration, the server having listed the
\* tools ts and nothing else.
AtSelection(ts) ==
    /\ pc = "choose"
    /\ transport = "open"
    /\ session = "open"
    /\ acquires = [transport |-> 1, session |-> 1]
    /\ tools = ts
    /\ resources = <<>>
    /\ templates = <<>>
    /\ fresh = [tools |-> TRUE, resources |-> TRUE, templates |-> TRUE]
    /\ menu = MenuOf(ts, <<>>, <<>>)
    /\ choice = NoChoice
    /\ sel = NoSel
    /\ argIdx = 0
    /\ lineRead = NoEntry
    /\ arguments = <<>>
    /\ params = <<>>
    /\ pidx = 0
    /\ param_values = <<>>
    /\ uri = <<>>
    /\ prompted = <<>>
    /\ shown = Msg("menu")
    /\ caught = NoExc
    /\ request = NoReq
    /\ srvChanged = FALSE
    /\ reqAfterRelease = FALSE
    /\ resumed = "first"
    /\ listError = NoExc
    /\ ended = "none"
    /\ raised = NoExc
    /\ interruptCancel = FALSE
    /\ diagnostic = FALSE
    /\ mainRaised = NoExc

BuildInit ==
    /\ \E schema \in SchemaPool :
          AtSelection(<<[name |-> "search_movies_by_plot", inputSchema |-> schema]>>)
    /\ SuiteIdle

BuildInput == ArgInputFrom(BuildLines)

BuildNext ==
    \/ Choose
    \/ BuildInput

\* The selection and build_arguments_from_schema, for one tool of any schema.
BuildSpec == BuildInit /\ [][BuildNext]_vars

\* ------------------------------------------------------ test_environment.py

\* What os.getenv can return for the three variables: None, the empty text,
\* or a value.
Environments ==
    [file : BOOLEAN, neo4j : BOOLEAN,
     NEO4J_URI : {None, "", "bolt://localhost:7687"},
     NEO4J_USERNAME : {None, "", "neo4j"},
     NEO4J_PASSWORD : {None, "", "password"}]

\* The class attributes as the class statement sets them, before the first test.
SuiteInit ==
    /\ ClientInit
    /\ env \in Environments
    /\ skip_env_variable_tests = TRUE
    /\ skip_neo4j_test = TRUE
    /\ step = "test_env_file_exists"
    /\ outcome = [t \in TestNames |-> "none"]
    /\ driver = "none"
    /\ connected = "unset"

\* The test that runs at `step` ends with result r; `next` runs after it.
Ends(r, next) ==
    /\ outcome' = [outcome EXCEPT ![step] = r]
    /\ step' = next

TestEnvFileExists ==
    /\ step = "test_env_file_exists"
    /\ skip_env_variable_tests' = IF env.file THEN FALSE ELSE skip_env_variable_tests
    /\ Ends(IF env.file THEN "ok" ELSE "FAIL", "test_neo4j_variables")
    /\ UNCHANGED <<env, skip_neo4j_test, driver, connected>>
    /\ UNCHANGED clientVars

\* assertIsNotNone(os.getenv(variable_name)) passes
env_variable_exists(e, variable_name) == e[variable_name] # None

\* Variant: only NEO4J_URI is looked at.
OnlyUriExists(e) == env_variable_exists(e, "NEO4J_URI")

\* The three calls of env_variable_exists in test_neo4j_variables pass.
VariablesExist(e) ==
    /\ env_variable_exists(e, "NEO4J_URI")
    /\ env_variable_exists(e, "NEO4J_USERNAME")
    /\ env_variable_exists(e, "NEO4J_PASSWORD")

TestNeo4jVariables ==
    /\ step = "test_neo4j_variables"
    /\ IF skip_env_variable_tests
       THEN Ends("skipped", "test_neo4j_connection") /\ UNCHANGED skip_neo4j_test
       ELSE IF VariablesExist(env)
       THEN Ends("ok", "test_neo4j_connection") /\ skip_neo4j_test' = FALSE
       ELSE Ends("FAIL", "test_neo4j_connection") /\ UNCHANGED skip_neo4j_test
    /\ UNCHANGED <<env, skip_env_variable_tests, driver, connected>>
    /\ UNCHANGED clientVars

\* GraphDatabase.driver(uri, auth=...) accepts the URI (it raises
\* ConfigurationError for a scheme it does not know).
SupportedUri(u) == u = "bolt://localhost:7687"

\* test_neo4j_connection up to the driver: the skip, the import, the
\* construction of the driver.
TestNeo4jConnection ==
    /\ step = "test_neo4j_connection"
    /\ IF skip_neo4j_test
       THEN Ends("skipped", "finished") /\ UNCHANGED driver
       ELSE IF ~env.neo4j \/ ~SupportedUri(env.NEO4J_URI)
       THEN Ends("ERROR", "finished") /\ UNCHANGED driver
       ELSE driver' = "open" /\ step' = "verify_connectivity" /\ UNCHANGED outcome
    /\ UNCHANGED <<env, skip_env_variable_tests, skip_neo4j_test, connected>>
    /\ UNCHANGED clientVars

\* driver.verify_connectivity() under `except Exception`: it returns, it
\* raises an Exception, or it is interrupted (KeyboardInterrupt is no
\* Exception: it leaves the test and ends the run).
VerifyConnectivity ==
    /\ step = "verify_connectivity"
    /\ \/ connected' = "True" /\ step' = "close"
       \/ connected' = "False" /\ step' = "close"
       \/ connected' = connected /\ step' = "aborted"
    /\ UNCHANGED <<env, skip_env_variable_tests, skip_neo4j_test, outcome, driver>>
    /\ UNCHANGED clientVars

\* driver.close()
CloseDriver ==
    /\ step = "close"
    /\ driver' = "closed"
    /\ step' = "assert"
    /\ UNCHANGED <<env, skip_env_variable_tests, skip_neo4j_test, outcome, connected>>
    /\ UNCHANGED clientVars

\* self.assertTrue(connected, ...)
AssertConnected ==
    /\ step = "assert"
    /\ outcome' = [outcome EXCEPT !["test_neo4j_connection"] =
                       IF connected = "True" THEN "ok" ELSE "FAIL"]
    /\ step' = "finished"
    /\ UNCHANGED <<env, skip_env_variable_tests, skip_neo4j_test, driver, connected>>
    /\ UNCHANGED clientVars

SuiteNext ==
    \/ TestEnvFileExists
    \/ TestNeo4jVariables
    \/ TestNeo4jConnection
    \/ VerifyConnectivity
    \/ CloseDriver
    \/ AssertConnected

\* runner.run(suite()): the three tests in the order suite() adds them.
SuiteSpec == SuiteInit /\ [][SuiteNext]_vars

\* ================================================================== claims

\* The number entered at the selection prompt.
Ordinal == int(choice).val

Total == Len(tools) + Len(resources) + Len(templates)

\* The name of the listed item the taken branch works on.
SelectedName ==
    IF sel.kind = "tool" THEN Item(tools, sel.index).name
    ELSE IF sel.kind = "resource" THEN Item(resources, sel.index).name
    ELSE Item(templates, sel.index).name

\* C1: for a listing with T tools, R resources and P templates, a selection n
\* in 1..T works on the n-th tool and calls it, n in T+1..T+R reads the
\* (n-T)-th resource, n in T+R+1..T+R+P takes the template branch for the
\* (n-T-R)-th template; the item is the one the menu of this iteration shows
\* under n, whatever the server does after the listing.
C1_OrdinalSelectsMenuEntry ==
    LET n == Ordinal
        T == Len(tools)
        R == Len(resources)
    IN  (choice # NoChoice /\ int(choice).ok /\ 1 <= n /\ n <= Total) =>
          /\ n <= T =>
                /\ sel = [kind |-> "tool", index |-> n - 1]
                /\ request.op # "none" =>
                      request.op = "call_tool" /\ request.name = tools[n].name
                /\ pc = "continue_prompt" => request.op = "call_tool"
          /\ (T < n /\ n <= T + R) =>
                /\ sel = [kind |-> "resource", index |-> n - T - 1]
                /\ request.op # "none" =>
                      request.op = "read_resource" /\ request.uri = resources[n - T].uri
                /\ pc = "continue_prompt" => request.op = "read_resource"
          /\ T + R < n =>
                /\ sel = [kind |-> "template", index |-> n - T - R - 1]
                /\ params = findall(templates[n - T - R].uriTemplate)
                /\ request.op # "none" => request.op = "read_resource"
                /\ pc = "continue_prompt" => request.op = "read_resource"
          /\ \E i \in 1..Len(menu) : menu[i].ordinal = n
          /\ \A i \in 1..Len(menu) :
                menu[i].ordinal = n =>
                    menu[i].kind = sel.kind /\ menu[i].name = SelectedName

\* C1 witness: the second template of a listing with two tools and one
\* resource was read (selection 5) after the server had changed its offerings.
C1_Witness ==
    /\ request.op = "read_resource"
    /\ sel = [kind |-> "template", index |-> 1]
    /\ Len(tools) = 2 /\ Len(resources) = 1
    /\ Ordinal = 5
    /\ srvChanged

InIteration ==
    {"choose", "arg_prompt", "call_tool", "tmpl_prompt", "read_resource",
     "continue_prompt"}

\* C7: every iteration starts by fetching tools, resources and templates
\* again; the menu shown, and every selection validated or dispatched, belongs
\* to the listing fetched in the same iteration.
C7_ListingRefetchedEveryIteration ==
    /\ pc = "list_tools" => fresh = AllStale
    /\ pc = "list_resources" => fresh = [AllStale EXCEPT !.tools = TRUE]
    /\ pc = "list_templates" => fresh = [tools |-> TRUE, resources |-> TRUE,
                                         templates |-> FALSE]
    /\ pc \in InIteration =>
          /\ fresh = [tools |-> TRUE, resources |-> TRUE, templates |-> TRUE]
          /\ menu = MenuOf(tools, resources, templates)

\* C7 witness: the menu of the iteration that follows a caught exception stands
\* at the prompt, all three collections fetched again.
C7_Witness ==
    /\ pc = "choose"
    /\ resumed = "error_executing"
    /\ fresh = [tools |-> TRUE, resources |-> TRUE, templates |-> TRUE]

\* C10: a selection that is no number, is negative or exceeds the number of
\* listed capabilities shows an error, issues no request, prompts for nothing
\* and leaves the loop at the start of the next listing.
C10_InvalidSelectionStaysInListing ==
    (/\ choice # NoChoice
     /\ choice # <<>>
     /\ choice # <<"0">>
     /\ ~int(choice).ok \/ Ordinal < 0 \/ Ordinal > Total) =>
        /\ pc = "list_tools"
        /\ shown.msg \in {"invalid_input", "invalid_selection"}
        /\ request = NoReq
        /\ sel = NoSel /\ argIdx = 0 /\ prompted = <<>>
        /\ session = "open"

\* C10 witness: a number above the total was entered and refused.
C10_Witness ==
    /\ choice # NoChoice /\ int(choice).ok /\ Ordinal > Total
    /\ Total >= 1
    /\ pc = "list_tools"
    /\ shown.msg = "invalid_selection"

\* The distinct members of q in order of first appearance.
RECURSIVE DistinctNames(_)
DistinctNames(q) ==
    IF q = <<>> THEN <<>>
    ELSE LET before == DistinctNames(SubSeq(q, 1, Len(q) - 1))
             last == q[Len(q)]
         IN  IF \E i \in 1..Len(before) : before[i] = last THEN before
             ELSE Append(before, last)

\* C2: for a template that repeats a placeholder name, the prompts are the
\* distinct names in order of first appearance, each once, and the invocation
\* is not abandoned as missing parameters when no prompt was left empty (with
\* every distinct name answered, read_resource is issued).
C2_RepeatedPlaceholderPromptedOnce ==
    LET names == DistinctNames(params) IN
    (/\ sel.kind = "template"
     /\ Len(names) < Len(params)
     /\ \A i \in 1..Len(prompted) : prompted[i][2] # <<>>) =>
        /\ Len(prompted) <= Len(names)
        /\ \A i \in 1..Len(prompted) : i <= Len(names) => prompted[i][1] = names[i]
        /\ shown.msg # "missing_parameters"

\* The template s from position i on, each placeholder occurrence replaced by
\* the value entered for its name, the values copied as they are.
RECURSIVE Substituted(_, _, _)
Substituted(s, i, values) ==
    IF i > Len(s) THEN <<>>
    ELSE LET n == WordRun(s, i + 1) IN
         IF s[i] = "{" /\ n >= 1 /\ i + n + 1 <= Len(s) /\ s[i + n + 1] = "}"
         THEN DictGet(values, SubSeq(s, i + 1, i + n))
              \o Substituted(s, i + n + 2, values)
         ELSE <<s[i]>> \o Substituted(s, i + 1, values)

\* C3: the address read for a template is the template with every placeholder
\* occurrence replaced by the value entered for its name, the inserted values
\* left as entered.
C3_AddressIsTemplateWithValuesInserted ==
    (request.op = "read_resource" /\ sel.kind = "template") =>
        request.uri = Substituted(Item(templates, sel.index).uriTemplate, 1,
                                  param_values)

\* C9: an empty value for a placeholder abandons the invocation: it is reported
\* as missing parameters, nothing is read, and the next iteration starts.
C9_EmptyValueAbortsResolution ==
    (\E i \in 1..Len(prompted) : prompted[i][2] = <<>>) =>
        /\ pc = "list_tools"
        /\ shown.msg = "missing_parameters"
        /\ request = NoReq
        /\ uri = <<>>
        /\ session = "open"

\* C9 witness: the second placeholder of a template was left empty after the
\* first had been given a value.
C9_Witness ==
    /\ Len(prompted) = 2
    /\ prompted[1][2] # <<>>
    /\ prompted[2][2] = <<>>
    /\ Len(param_values) = 1
    /\ pc = "list_tools"

\* Where an invocation branch can raise.
BranchSites == {"index", "argument", "value", "call_tool", "read_resource", "render"}

\* C4: an exception (an instance of Exception, of whatever class) raised inside
\* an invocation branch is caught by the loop, the exception is displayed, and
\* the loop goes back to listing with the session open.
C4_BranchExceptionDisplayed ==
    (caught # NoExc /\ IsException(caught) /\ caught.site \in BranchSites) =>
        /\ pc = "list_tools"
        /\ ended = "none"
        /\ session = "open"
        /\ shown.msg = "error_executing"
        /\ shown.exc = caught

\* C5 as stated: once a branch was entered, the loop ends only by `q` at the
\* post-invocation prompt.
C5_OnlyQuitEndsInvocation ==
    (sel.kind # "none" /\ pc \in {"main", "done"}) => ended = "quit"

\* C5 amended: after a branch ends by a result (error flag set or not) the
\* post-invocation prompt follows, and from there, as after an Exception in
\* the branch, the next listing; once a branch was entered the loop ends only
\* by `q` at the post-invocation prompt, by a KeyboardInterrupt the loop
\* catches, or by a BaseException that is no Exception escaping the loop.
C5_BackToListingUnlessQuitOrInterrupt ==
    /\ (sel.kind # "none" /\ pc \in {"main", "done"}) =>
          \/ ended = "quit"
          \/ ended = "interrupt" /\ caught.kind = "KeyboardInterrupt"
          \/ ended = "error" /\ raised # NoExc /\ ~IsException(raised)
    /\ (sel.kind # "none" /\ caught # NoExc /\ IsException(caught)) =>
          pc = "list_tools" /\ ended = "none"
    /\ shown.msg \in {"result", "contents"} =>
          pc \in {"continue_prompt", "list_tools"} /\ ended = "none"
    /\ pc = "continue_prompt" => shown.msg \in {"result", "contents"}
    /\ ended = "quit" => sel.kind # "none" /\ request.op # "none" /\ caught = NoExc

\* C5 witness: a tool result with the error flag set was displayed and the
\* loop went on to the next listing.
C5_Witness ==
    /\ sel.kind = "tool"
    /\ shown.msg = "result" /\ shown.flagged
    /\ pc = "list_tools"

\* C6: the transport and the session are entered at most once, are held while
\* the loop runs, are released however the loop ends, and no request is issued
\* on a released session.
C6_SessionReleasedOnEveryExit ==
    /\ acquires.transport <= 1 /\ acquires.session <= 1
    /\ pc \in {"main", "done"} =>
          /\ transport = (IF acquires.transport = 1 THEN "closed" ELSE "none")
          /\ session = (IF acquires.session = 1 THEN "closed" ELSE "none")
    /\ pc \in InIteration \cup {"list_tools", "list_resources", "list_templates"} =>
          transport = "open" /\ session = "open"
    /\ ~reqAfterRelease

\* C6 witness: a keyboard interrupt during call_tool ended the loop and both
\* contexts are closed.
C6_Witness ==
    /\ pc = "done"
    /\ ended = "interrupt"
    /\ request.op = "call_tool"
    /\ transport = "closed" /\ session = "closed"

\* C8: an error of list_tools, list_resources or list_resource_templates, in
\* the first or a later iteration, is not handled by the loop: the diagnostic
\* is printed, the same exception leaves interactive_tool_client (and main),
\* and the session is over.
C8_ListErrorLeavesClient ==
    /\ (listError # NoExc /\ IsException(listError)) =>
          /\ pc \in {"main", "done"}
          /\ ended = "error"
          /\ raised = listError
          /\ diagnostic
          /\ caught = NoExc
          /\ transport = "closed" /\ session = "closed"
          /\ pc = "done" => mainRaised = listError
    /\ caught.site \notin {"list_tools", "list_resources", "list_templates"}

\* C8 witness: list_resources failed in an iteration after a completed read.
C8_Witness ==
    /\ pc = "done"
    /\ listError = Exc("ValueError", "list_resources")
    /\ resumed = "contents"
    /\ mainRaised = listError

\* C11: at the selection prompt, the answer 0 or an empty line (after
\* stripping) ends the loop at once: the farewell is shown, no item is
\* selected, and neither call_tool nor read_resource is issued in that
\* iteration; the session is released and nothing is raised.
C11_ExitIssuesNoRequest ==
    /\ (choice = <<"0">> \/ choice = <<>>) =>
          /\ pc \in {"main", "done"}
          /\ ended = "exit"
          /\ request = NoReq
          /\ sel = NoSel
          /\ caught = NoExc /\ raised = NoExc
          /\ session = "closed" /\ transport = "closed"
          /\ shown.msg = (IF pc = "main" THEN "goodbye" ELSE "session_ended")
    /\ ended = "exit" => (choice = <<"0">> \/ choice = <<>>)

\* C11 witness: the empty line was entered at the selection prompt of a
\* listing with two tools, and the client has ended without a request.
C11_Witness ==
    /\ pc = "done"
    /\ ended = "exit"
    /\ choice = <<>>
    /\ Len(tools) = 2
    /\ request = NoReq

\* A keyboard interrupt reached the session: KeyboardInterrupt was raised at
\* a prompt, a listing or a request, or the main task was cancelled on SIGINT.
Interrupted ==
    \/ caught.kind = "KeyboardInterrupt"
    \/ raised.kind = "KeyboardInterrupt"
    \/ raised.kind = "CancelledError" /\ interruptCancel

\* C12: a keyboard interrupt, wherever it arrives (startup, a list call, the
\* selection prompt, an argument or template value prompt, a call_tool or
\* read_resource in flight, the post-invocation prompt), ends the loop, leaves
\* both contexts released, prints no connection diagnostic, and main() returns
\* normally after the end-of-session line: no exception leaves main().
C12_InterruptEndsGracefully ==
    Interrupted =>
        /\ pc \in {"main", "done"}
        /\ ended = (IF caught.kind = "KeyboardInterrupt" THEN "interrupt" ELSE "error")
        /\ session \in {"none", "closed"} /\ transport \in {"none", "closed"}
        /\ ~diagnostic
        /\ pc = "done" => mainRaised = NoExc /\ shown.msg = "session_ended"

\* C12 witness: Ctrl-C while call_tool was in flight cancelled the main task,
\* and main() has returned normally.
C12_Witness ==
    /\ pc = "done"
    /\ raised = Exc("CancelledError", "call_tool")
    /\ interruptCancel
    /\ request.op = "call_tool"
    /\ mainRaised = NoExc
    /\ shown.msg = "session_ended"

\* The input schema of the selected tool, and its i-th property.
Schema == Item(tools, sel.index).inputSchema

Name(i) == Schema.properties[i].name

Required(i) == Name(i) \in Schema.required

\* build_arguments_from_schema has returned.
Returned == sel.kind = "tool" /\ pc = "call_tool"

\* C13: build_arguments_from_schema returns only with a value stored for
\* every required parameter, and passes a required parameter only with its
\* value stored; after an empty (or blank) line for a required parameter the
\* warning is shown and the same parameter is prompted again, nothing stored.
C13_RequiredParameterAlwaysStored ==
    /\ Returned =>
          \A i \in 1..Len(Schema.properties) :
              Required(i) => DictHas(arguments, Name(i))
    /\ pc = "arg_prompt" =>
          \A i \in 1..(argIdx - 1) : Required(i) => DictHas(arguments, Name(i))
    /\ (sel.kind = "tool" /\ lineRead.at > 0 /\ Required(lineRead.at)
           /\ strip(lineRead.line) = <<>> /\ caught = NoExc) =>
          /\ pc = "arg_prompt"
          /\ argIdx = lineRead.at
          /\ shown.msg = "required_warning"
          /\ ~DictHas(arguments, Name(argIdx))

\* C13 witness: the second parameter is required, an empty line was entered
\* for it, and it is prompted again with the first value in place.
C13_Witness ==
    /\ pc = "arg_prompt"
    /\ argIdx = 2 /\ Required(2)
    /\ lineRead = [at |-> 2, line |-> <<>>]
    /\ DictHas(arguments, Name(1))
    /\ shown.msg = "required_warning"

\* The declared type of the i-th property, "string" where none is declared.
TypeAt(i) == ParamType(Schema.properties[i])

\* The text cannot be converted to the declared type.
Malformed(type, text) ==
    \/ type = "integer" /\ ~int(text).ok
    \/ type = "number" /\ ~float(text).ok
    \/ type \in {"object", "array"} /\ ~json_loads(text).ok

\* C14: after a non-empty line that cannot be converted to the declared type
\* (integer, number, object or array), an error is shown and the same
\* parameter is prompted again: nothing is stored for it, the values of the
\* earlier parameters are in place, no exception left the function and the
\* loop iteration goes on.
C14_CoercionFailureRePrompts ==
    (/\ sel.kind = "tool" /\ lineRead.at > 0
     /\ strip(lineRead.line) # <<>>
     /\ Malformed(TypeAt(lineRead.at), strip(lineRead.line))
     /\ caught.site # "argument") =>
        /\ pc = "arg_prompt"
        /\ argIdx = lineRead.at
        /\ shown.msg = "invalid_type"
        /\ ~DictHas(arguments, Name(argIdx))
        /\ \A i \in 1..(argIdx - 1) : Required(i) => DictHas(arguments, Name(i))
        /\ caught = NoExc
        /\ ended = "none"

\* C15: after an empty (or blank) line for an optional parameter the function
\* moves on, to the next parameter or to its return, and the mapping has no
\* key for that parameter; no parameter is ever stored as the empty text.
C15_OptionalEmptyLeavesKeyOut ==
    /\ (sel.kind = "tool" /\ lineRead.at > 0 /\ ~Required(lineRead.at)
           /\ strip(lineRead.line) = <<>> /\ caught = NoExc) =>
          /\ ~DictHas(arguments, Name(lineRead.at))
          /\ IF lineRead.at < Len(Schema.properties)
             THEN pc = "arg_prompt" /\ argIdx = lineRead.at + 1
             ELSE Returned
    /\ \A k \in 1..Len(arguments) :
          arguments[k][2].t = "str" => arguments[k][2].v # <<>>

\* C15 witness: the function returned after a blank line for the optional
\* second parameter; the mapping holds the first parameter only.
C15_Witness ==
    /\ Returned
    /\ lineRead = [at |-> 2, line |-> <<" ">>]
    /\ ~Required(2)
    /\ Len(arguments) = 1 /\ DictHas(arguments, Name(1))

\* The inputs that make a boolean true.
AcceptedAsTrue == {<<"t", "r", "u", "e">>, <<"y", "e", "s">>, <<"1">>, <<"y">>}

\* The value the declared type gives for a text: the parsed integer, the
\* parsed float, the boolean, the parsed JSON data, or the text itself.
ValueByType(type, text) ==
    IF type = "integer" THEN [t |-> "int", v |-> int(text).val]
    ELSE IF type = "number" THEN float(text).val
    ELSE IF type = "boolean" THEN [t |-> "bool", v |-> lower(text) \in AcceptedAsTrue]
    ELSE IF type \in {"object", "array"} THEN json_loads(text).val
    ELSE [t |-> "str", v |-> text]

\* Two stored values are the same value of the same type.
SameValue(a, b) ==
    /\ a.t = b.t
    /\ IF a.t = "float" THEN a.num = b.num /\ a.scale = b.scale
       ELSE IF a.t \in {"object", "array"} THEN a.items = b.items
       ELSE IF a.t = "none" THEN TRUE
       ELSE a.v = b.v

\* The declared type of the i-th property as the schema has it; a missing
\* type counts as any other type (text).
DeclaredAt(i) == Schema.properties[i].type

\* A value was stored for the parameter the last line was read for.
StoredForLine ==
    sel.kind = "tool" /\ lineRead.at > 0 /\ DictHas(arguments, Name(lineRead.at))

\* C16 as stated: the value stored is what the declared type gives for the
\* line that was entered.
C16_ValueByTypeOfLine ==
    StoredForLine =>
        SameValue(DictGet(arguments, Name(lineRead.at)),
                  ValueByType(DeclaredAt(lineRead.at), lineRead.line))

\* C16: the value stored is what the declared type gives for the entered line
\* with leading and trailing whitespace removed: the parsed integer for
\* integer, the parsed float for number, for boolean true exactly when the
\* lowercased text is one of true, yes, 1, y, the parsed JSON data for object
\* and array, the text itself for any other or missing type. For boolean and
\* for the text types every line that is not blank is stored.
C16_ValueByTypeOfStrippedLine ==
    /\ StoredForLine =>
          /\ strip(lineRead.line) # <<>>
          /\ SameValue(DictGet(arguments, Name(lineRead.at)),
                       ValueByType(DeclaredAt(lineRead.at), strip(lineRead.line)))
    /\ (sel.kind = "tool" /\ lineRead.at > 0 /\ strip(lineRead.line) # <<>>
           /\ DeclaredAt(lineRead.at) \notin {"integer", "number", "object", "array"}) =>
          DictHas(arguments, Name(lineRead.at))

\* C16 witness: the function returned with 1.5 stored as a float for the
\* number parameter and true for the boolean one, entered as " y".
C16_Witness ==
    /\ Returned
    /\ lineRead = [at |-> 2, line |-> <<" ", "y">>]
    /\ DeclaredAt(1) = "number" /\ DeclaredAt(2) = "boolean"
    /\ DictHas(arguments, Name(1)) /\ DictHas(arguments, Name(2))
    /\ SameValue(DictGet(arguments, Name(1)), [t |-> "float", num |-> 15, scale |-> 1])
    /\ SameValue(DictGet(arguments, Name(2)), [t |-> "bool", v |-> TRUE])

\* C17: a tool result with the error flag set is displayed like any result,
\* its content items (or the no-content line) followed by the error
\* indicator, and the post-invocation prompt comes next; the flag raises
\* nothing: the only exceptions after such a result are a failure to print a
\* content item and an exception at the post-invocation prompt, and the loop
\* ends only by q or an interrupt at that prompt.
C17_FlaggedResultIsDisplayed ==
    (request.op = "call_tool" /\ request.isError) =>
        /\ caught = NoExc =>
              /\ pc \in {"continue_prompt", "list_tools", "main", "done"}
              /\ pc \in {"continue_prompt", "list_tools"} =>
                    /\ shown.msg = "result"
                    /\ shown.flagged
                    /\ shown.content \in {"no_content", "text", "item"}
              /\ pc \in {"main", "done"} => ended = "quit"
        /\ caught # NoExc => caught.site \in {"render", "continue"}
        /\ caught.site = "render" => pc = "list_tools" /\ ended = "none"
        /\ ended \in {"none", "quit", "interrupt"}
        /\ raised = NoExc

\* C17 witness: a flagged result with text content was displayed and the
\* post-invocation prompt is up.
C17_Witness ==
    /\ pc = "continue_prompt"
    /\ request.op = "call_tool" /\ request.isError
    /\ shown = [msg |-> "result", exc |-> NoExc, content |-> "text", flagged |-> TRUE]
    /\ caught = NoExc

\* os.getenv returns a value for each of the three variables.
VariablesSet ==
    env.NEO4J_URI # None /\ env.NEO4J_USERNAME # None /\ env.NEO4J_PASSWORD # None

\* The .env file exists and the three variables are set.
Configured == env.file /\ VariablesSet

\* C18 as stated: the connection test opens a driver and checks connectivity
\* only if .env exists and the three variables are set, and is skipped
\* otherwise; the variables test is skipped when .env is missing; and once the
\* run is over, finished or not, a driver that was opened is closed.
C18_DriverAlwaysClosed ==
    /\ (driver # "none" \/ connected # "unset") => Configured
    /\ (step \in {"finished", "aborted"} /\ ~Configured) =>
          outcome["test_neo4j_connection"] = "skipped"
    /\ (outcome["test_neo4j_variables"] # "none" /\ ~env.file) =>
          outcome["test_neo4j_variables"] = "skipped"
    /\ step \in {"finished", "aborted"} => driver # "open"

\* C18: as stated, but the driver is closed when verify_connectivity returned
\* or raised an Exception, and then before the assertion; when the check is
\* interrupted the run ends with the driver open. When .env exists and the
\* three variables are set the connection test is not skipped.
C18_DriverClosedUnlessInterrupted ==
    /\ (driver # "none" \/ connected # "unset") => Configured
    /\ (step \in {"finished", "aborted"} /\ ~Configured) =>
          outcome["test_neo4j_connection"] = "skipped"
    /\ (outcome["test_neo4j_variables"] # "none" /\ ~env.file) =>
          outcome["test_neo4j_variables"] = "skipped"
    /\ (step = "finished" /\ Configured) => outcome["test_neo4j_connection"] # "skipped"
    /\ step = "finished" => driver # "open"
    /\ step = "assert" => driver = "closed"
    /\ outcome["test_neo4j_connection"] \in {"ok", "FAIL"} =>
          driver = "closed" /\ connected # "unset"
    /\ step = "aborted" => driver = "open" /\ connected = "unset"

\* C18 witness: the connectivity check failed, the driver was closed and the
\* test has failed.
C18_Witness ==
    /\ step = "finished"
    /\ connected = "False"
    /\ driver = "closed"
    /\ outcome["test_neo4j_connection"] = "FAIL"

====
